---- MODULE Spec2Model ----
(***************************************************************************)
(* The WebSocket terminal bridge of webserver/src/app.js (lines 292-321):  *)
(* one middleware run per inbound WebSocket connection spawns a PTY shell, *)
(* registers a 'message' listener on the socket (connection -> process)    *)
(* and a 'data' listener on the PTY (process -> connection).               *)
(*                                                                         *)
(* Listeners run one call at a time: each inbound frame is one call of the *)
(* 'message' listener (OnMessage); a chunk is first emitted by the shell   *)
(* (PtyEmit) and later handed to the 'data' listener (OnData).             *)
(*                                                                         *)
(* shell, messageProcessor and outputProcessor are used by app.js but not  *)
(* defined in it; they are modelled from the design document (sections     *)
(* 4.3 and 6).                                                             *)
(***************************************************************************)
EXTENDS Integers, Sequences, FiniteSets, TLC

\* ------------------------------------------------------------ bounds
\* total number of events from outside (inbound frames received and output
\* chunks emitted), over all sessions
MaxEvents == 2
\* frames buffered in a socket beyond which it "cannot accept more data"
HighWater == 1

\* ------------------------------------------------------------ constants
DefaultCols == 80
DefaultRows == 24

Sessions == {1, 2}

\* marks a frame that has no "payload" field
NoPayload == "<missing>"

Frame(t, p, c, r) == [type |-> t, payload |-> p, cols |-> c, rows |-> r]

\* the inbound frames a client sends: well-formed ones, a command without
\* payload, resizes with a non-positive dimension, and an unknown type
Frames ==
  { Frame("command", "ls", 0, 0),
    Frame("command", NoPayload, 0, 0),
    Frame("resize", NoPayload, 100, 30),
    Frame("resize", NoPayload, 0, 30),
    Frame("resize", NoPayload, 100, -1),
    Frame("unknown", "ls", 100, 30) }

VARIABLES
  conn,      \* conn[s]: "none" | "open" | "closed"  (the WebSocket)
  auth,      \* auth[s]: the upgrade request carried an authenticated identity
  pty,       \* pty[s]: "none" | "failed" | "alive" | "exited"
  geom,      \* geom[s]: <<cols, rows>> of the PTY
  received,  \* received[s]: frames the 'message' listener of s was called with
  calls,     \* calls[t]: write/resize calls made on the PTY of session t
  emitted,   \* emitted[s]: number of chunks the shell of s has produced
  nRead,     \* nRead[s]: how many of them the 'data' listener has seen
  sent,      \* sent[s]: frames the socket of s accepted from send()
  drained,   \* drained[s]: how many of them have left the socket buffer
  crashed    \* an exception escaped an event listener (uncaught)

vars == <<conn, auth, pty, geom, received, calls, emitted, nRead,
          sent, drained, crashed>>

\* ------------------------------------------------------------ helpers
RECURSIVE SumOver(_, _)
SumOver(f, S) ==
  IF S = {} THEN 0
  ELSE LET x == CHOOSE y \in S : TRUE IN f[x] + SumOver(f, S \ {x})

TotalReceived == SumOver([s \in Sessions |-> Len(received[s])], Sessions)
TotalEmitted == SumOver(emitted, Sessions)

IsPrefix(p, q) == Len(p) <= Len(q) /\ SubSeq(q, 1, Len(p)) = p

\* the i-th output chunk of the shell of session s
Chunk(s, i) == <<s, i>>
EmittedSeq(s) == [i \in 1..emitted[s] |-> Chunk(s, i)]

\* frames sent but still held in the socket's buffer (bufferedAmount)
Buffered(s) == Len(sent[s]) - drained[s]

\* ------------------------------------------------------------ codec
\* Decoding of an inbound frame (design document 4.3): "command" needs a
\* string payload, "resize" needs two positive integers, anything else is a
\* protocol error that is dropped.
ProtocolError == [type |-> "error", command |-> NoPayload, cols |-> 0, rows |-> 0]

messageProcessor(f) ==
  IF f.type = "command" /\ f.payload # NoPayload
    THEN [type |-> "command", command |-> f.payload, cols |-> 0, rows |-> 0]
  ELSE IF f.type = "resize" /\ f.cols > 0 /\ f.rows > 0
    THEN [type |-> "resize", command |-> NoPayload, cols |-> f.cols, rows |-> f.rows]
  ELSE ProtocolError

\* Encoding of an output chunk (design document 4.3): pass-through
outputProcessor(chunk) == chunk

\* ------------------------------------------------------------ listeners
Call(o, d, c, r) == [op |-> o, data |-> d, cols |-> c, rows |-> r]

\* mutants of HandlerCalls
HandlerCallsSwapped(pm) ==
  IF pm.type = "command" THEN << Call("write", pm.command, 0, 0) >>
  ELSE IF pm.type = "resize" THEN << Call("resize", NoPayload, pm.rows, pm.cols) >>
  ELSE << >>

HandlerCallsElseWrite(pm) ==
  IF pm.type = "resize" THEN << Call("resize", NoPayload, pm.cols, pm.rows) >>
  ELSE << Call("write", pm.command, 0, 0) >>

\* the if / else-if of the 'message' listener: the PTY calls one processed
\* message leads to
HandlerCalls(pm) ==
  IF pm.type = "command" THEN << Call("write", pm.command, 0, 0) >>
  ELSE IF pm.type = "resize" THEN << Call("resize", NoPayload, pm.cols, pm.rows) >>
  ELSE << >>

\* mutant of MessageCalls: dispatches on the frame as it arrived
MessageCallsRaw(f) ==
  HandlerCalls([type |-> f.type, command |-> f.payload, cols |-> f.cols, rows |-> f.rows])

\* the 'message' listener: process the message, then dispatch
MessageCalls(f) == HandlerCalls(messageProcessor(f))

\* the PTY the listeners of connection s close over
ptyProcess(s) == s

\* mutant of SendFrame: newest frame first
SendFramePrepend(q, f) == <<f>> \o q

\* ctx.websocket.send on an open socket: the frame joins the send buffer
SendFrame(q, f) == Append(q, f)

\* the listeners are registered only when pty.spawn returned
Registered(s) == pty[s] \in {"alive", "exited"}

\* ------------------------------------------------------------ initial state
Init ==
  /\ conn = [s \in Sessions |-> "none"]
  /\ auth = [s \in Sessions |-> FALSE]
  /\ pty = [s \in Sessions |-> "none"]
  /\ geom = [s \in Sessions |-> <<0, 0>>]
  /\ received = [s \in Sessions |-> << >>]
  /\ calls = [s \in Sessions |-> << >>]
  /\ emitted = [s \in Sessions |-> 0]
  /\ nRead = [s \in Sessions |-> 0]
  /\ sent = [s \in Sessions |-> << >>]
  /\ drained = [s \in Sessions |-> 0]
  /\ crashed = FALSE

\* ------------------------------------------------------------ actions
\* A WebSocket connection arrives and the middleware runs; sessions are
\* numbered in the order their connections arrive.  It does not
\* consult the authentication state of the request.  pty.spawn either
\* returns a running PTY (80x24) or throws; a throw leaves the middleware
\* before any listener is registered and is swallowed by the WebSocket
\* server, which leaves the socket open.
Connect(s, a, ok) ==
  /\ ~crashed
  /\ conn[s] = "none"
  /\ \A t \in Sessions : t < s => conn[t] # "none"
  /\ conn' = [conn EXCEPT ![s] = "open"]
  /\ auth' = [auth EXCEPT ![s] = a]
  /\ IF ok
       THEN /\ pty' = [pty EXCEPT ![s] = "alive"]
            /\ geom' = [geom EXCEPT ![s] = <<DefaultCols, DefaultRows>>]
       ELSE /\ pty' = [pty EXCEPT ![s] = "failed"]
            /\ UNCHANGED geom
  /\ UNCHANGED <<received, calls, emitted, nRead, sent, drained, crashed>>

\* A frame arrives on an open connection and the 'message' listener runs on
\* it.  It makes its call on the PTY whatever the state of the PTY.  A call
\* on a live PTY
\* takes effect (a resize with positive dimensions sets the geometry); a
\* call the PTY library rejects (exited process, non-positive dimension)
\* has no effect and, depending on the library, may throw out of the
\* listener (thrown).
OnMessage(s, message, thrown) ==
  /\ ~crashed
  /\ conn[s] = "open"
  /\ Registered(s)
  /\ TotalReceived + TotalEmitted < MaxEvents
  /\ LET cs == MessageCalls(message)
         t  == ptyProcess(s)
         live == pty[t] = "alive"
         rejected == cs # << >> /\
                     (~live \/ (cs[1].op = "resize" /\ (cs[1].cols <= 0 \/ cs[1].rows <= 0)))
     IN /\ received' = [received EXCEPT ![s] = Append(@, message)]
        /\ calls' = [calls EXCEPT ![t] =
                       @ \o [i \in 1..Len(cs) |->
                               [op |-> cs[i].op, data |-> cs[i].data,
                                cols |-> cs[i].cols, rows |-> cs[i].rows,
                                from |-> s, live |-> live]]]
        /\ geom' = IF cs # << >> /\ ~rejected /\ cs[1].op = "resize"
                     THEN [geom EXCEPT ![t] = <<cs[1].cols, cs[1].rows>>]
                     ELSE geom
        /\ crashed' = (rejected /\ thrown)
        /\ (thrown => rejected)
  /\ UNCHANGED <<conn, auth, pty, emitted, nRead, sent, drained>>

\* the shell writes a chunk of output
PtyEmit(s) ==
  /\ ~crashed
  /\ pty[s] = "alive"
  /\ TotalReceived + TotalEmitted < MaxEvents
  /\ emitted' = [emitted EXCEPT ![s] = @ + 1]
  /\ UNCHANGED <<conn, auth, pty, geom, received, calls, nRead, sent, drained, crashed>>

\* the socket the 'data' listener of session s closes over
websocketOf(s) == s

\* The 'data' listener runs on the next pending chunk and sends it at once,
\* whatever the socket's buffer holds.  On a socket that is no longer open
\* the frame is not sent and, depending on the socket library, send() may
\* throw out of the listener (thrown).
OnData(s, thrown) ==
  /\ ~crashed
  /\ Registered(s)
  /\ nRead[s] < emitted[s]
  /\ LET w == websocketOf(s)
         processedOutput == outputProcessor(Chunk(s, nRead[s] + 1))
     IN /\ nRead' = [nRead EXCEPT ![s] = @ + 1]
        /\ IF conn[w] = "open"
             THEN /\ sent' = [sent EXCEPT ![w] = SendFrame(@, processedOutput)]
                  /\ ~thrown
                  /\ UNCHANGED crashed
             ELSE /\ crashed' = thrown
                  /\ UNCHANGED sent
  /\ UNCHANGED <<conn, auth, pty, geom, received, calls, emitted, drained>>

\* the network takes one buffered frame from an open socket
WsDrain(s) ==
  /\ ~crashed
  /\ conn[s] = "open"
  /\ drained[s] < Len(sent[s])
  /\ drained' = [drained EXCEPT ![s] = @ + 1]
  /\ UNCHANGED <<conn, auth, pty, geom, received, calls, emitted, nRead, sent, crashed>>

\* the client closes (or loses) the connection; no listener is registered
\* for it
ClientClose(s) ==
  /\ ~crashed
  /\ conn[s] = "open"
  /\ conn' = [conn EXCEPT ![s] = "closed"]
  /\ UNCHANGED <<auth, pty, geom, received, calls, emitted, nRead, sent, drained, crashed>>

\* the shell exits; no listener is registered for it
ProcessExit(s) ==
  /\ ~crashed
  /\ pty[s] = "alive"
  /\ pty' = [pty EXCEPT ![s] = "exited"]
  /\ UNCHANGED <<conn, auth, geom, received, calls, emitted, nRead, sent, drained, crashed>>

Next ==
  \/ \E s \in Sessions, a \in BOOLEAN, ok \in BOOLEAN : Connect(s, a, ok)
  \/ \E s \in Sessions, message \in Frames, thrown \in BOOLEAN : OnMessage(s, message, thrown)
  \/ \E s \in Sessions : PtyEmit(s)
  \/ \E s \in Sessions, thrown \in BOOLEAN : OnData(s, thrown)
  \/ \E s \in Sessions : WsDrain(s)
  \/ \E s \in Sessions : ClientClose(s)
  \/ \E s \in Sessions : ProcessExit(s)

Spec == Init /\ [][Next]_vars

\* The event loop dispatches every pending event to its listener; the
\* client, the network and the shell are under no obligation.
FairSpec ==
  /\ Spec
  /\ \A s \in Sessions : WF_vars(\E thrown \in BOOLEAN : OnData(s, thrown))

TypeOK ==
  /\ conn \in [Sessions -> {"none", "open", "closed"}]
  /\ pty \in [Sessions -> {"none", "failed", "alive", "exited"}]
  /\ auth \in [Sessions -> BOOLEAN]
  /\ crashed \in BOOLEAN
  /\ \A s \in Sessions : nRead[s] <= emitted[s]
  /\ \A s \in Sessions : drained[s] <= Len(sent[s])

\* ------------------------------------------------------------ session states
\* The states of the design document, read off the model: Active is a
\* session whose spawn succeeded and for which no termination trigger has
\* fired; a trigger is the connection closing or the process exiting;
\* Closed is process terminated and connection closed.
Active(s) == pty[s] = "alive" /\ conn[s] = "open"
Triggered(s) == Registered(s) /\ (conn[s] = "closed" \/ pty[s] = "exited")
Closed(s) == pty[s] # "alive" /\ conn[s] = "closed"

Last(q) == q[Len(q)]

\* a frame that decodes to a Message of the data model
WellFormed(f) ==
  \/ f.type = "command" /\ f.payload # NoPayload
  \/ f.type = "resize" /\ f.cols > 0 /\ f.rows > 0

BadResize(f) == f.type = "resize" /\ (f.cols <= 0 \/ f.rows <= 0)

\* the operation a well-formed frame stands for
ExpectedCall(f) ==
  IF f.type = "command" THEN Call("write", f.payload, 0, 0)
  ELSE Call("resize", NoPayload, f.cols, f.rows)

ExpectedCalls(fs) ==
  LET wf == SelectSeq(fs, WellFormed)
  IN [i \in 1..Len(wf) |-> ExpectedCall(wf[i])]

\* calls[s] without the bookkeeping fields
Applied(s) ==
  [i \in 1..Len(calls[s]) |->
     Call(calls[s][i].op, calls[s][i].data, calls[s][i].cols, calls[s][i].rows)]

\* the listener of s has just run on a frame
Handles(s) == Len(received'[s]) = Len(received[s]) + 1

\* ------------------------------------------------------------ claims

\* C1: whatever termination triggers fire, the teardown runs once: after
\* the connection closes the process handle is released, and after the
\* process exits the connection is closed (never zero times).
C1_TeardownOnce ==
  \A s \in Sessions :
    /\ (Registered(s) /\ conn[s] = "closed") ~> (pty[s] # "alive")
    /\ (pty[s] = "exited") ~> (conn[s] = "closed")

\* C2: a session that was Active and observes a termination trigger
\* eventually reaches Closed (process terminated, connection closed) and
\* stays there.
C2_ReachesClosed ==
  \A s \in Sessions : [](Triggered(s) => <>[]Closed(s))

\* C3: the write/resize calls applied to a session's process are exactly
\* the Command and Resize messages received on its connection, in the order
\* received, each with its payload or its cols and rows, and none of them
\* comes from another session's connection.
C3_InboundOrder ==
  \A s \in Sessions :
    /\ Applied(s) = ExpectedCalls(received[s])
    /\ \A i \in 1..Len(calls[s]) : calls[s][i].from = s
    /\ pty[s] = "alive" => \A i \in 1..Len(calls[s]) : calls[s][i].live

C3_Witness ==
  \E s \in Sessions :
    /\ Active(s)
    /\ Len(calls[s]) = 2
    /\ calls[s][1].op = "write"
    /\ calls[s][2].op = "resize"
    /\ geom[s] = <<100, 30>>

\* C4: while a session is Active and its connection cannot accept more data
\* (its buffer is at the high-water mark), the output pump reads nothing
\* more from the process.
C4_Backpressure ==
  [][\A s \in Sessions :
       (Active(s) /\ Buffered(s) >= HighWater) => nRead'[s] = nRead[s]]_vars

\* C5: a Resize with cols <= 0 or rows <= 0 never becomes a resize call on
\* the process: no such call is ever made, the geometry stays positive, and
\* handling such a frame in an Active session changes nothing (geometry,
\* session state, no fault).
C5_NoBadResizeCall ==
  \A s \in Sessions :
    /\ \A i \in 1..Len(calls[s]) :
         calls[s][i].op = "resize" => calls[s][i].cols > 0 /\ calls[s][i].rows > 0
    /\ Registered(s) => geom[s][1] > 0 /\ geom[s][2] > 0

C5_BadResizeStep ==
  \A s \in Sessions :
    (Active(s) /\ Handles(s) /\ BadResize(Last(received'[s])))
      => /\ calls' = calls
         /\ geom' = geom
         /\ Active(s)'
         /\ crashed' = crashed

C6_AuthenticatedOnly ==
  \A s \in Sessions : pty[s] # "none" => auth[s]

\* C7: when spawning the shell fails, no call is ever made on a process
\* and the connection is eventually closed.
C7_SpawnFailureCloses ==
  \A s \in Sessions :
    [](pty[s] = "failed" => (calls[s] = << >> /\ <>(conn[s] = "closed")))

\* C8: once the process of a session has exited, a Command or Resize that
\* still arrives causes no write or resize call on the process.
C8_NoCallAfterExit ==
  \A s \in Sessions : \A i \in 1..Len(calls[s]) : calls[s][i].live

\* C9: a frame of unknown type, or a command without payload, handled in
\* an Active session makes no call on the process and leaves geometry and
\* session state unchanged; a well-formed frame that follows it is applied.
C9_DropStep ==
  \A s \in Sessions :
    /\ (Active(s) /\ Handles(s) /\ ~WellFormed(Last(received'[s]))
                  /\ ~BadResize(Last(received'[s])))
         => /\ calls' = calls
            /\ geom' = geom
            /\ Active(s)'
            /\ crashed' = crashed
    /\ (Active(s) /\ Handles(s) /\ WellFormed(Last(received'[s]))
                  /\ received[s] # << >> /\ ~WellFormed(Last(received[s])))
         => /\ calls'[s] = Append(calls[s],
                             [op |-> ExpectedCall(Last(received'[s])).op,
                              data |-> ExpectedCall(Last(received'[s])).data,
                              cols |-> ExpectedCall(Last(received'[s])).cols,
                              rows |-> ExpectedCall(Last(received'[s])).rows,
                              from |-> s, live |-> TRUE])
            /\ Active(s)'

C10_SentIsPrefix ==
  \A s \in Sessions : IsPrefix(sent[s], EmittedSeq(s))

C10_NoSendAfterClose ==
  \A s \in Sessions : conn[s] # "open" => sent'[s] = sent[s]

C10_OutboundOrder == []C10_SentIsPrefix /\ [][C10_NoSendAfterClose]_vars

C10_Witness ==
  \E s \in Sessions :
    /\ Len(sent[s]) = 2
    /\ nRead[s] = 2
    /\ conn[s] = "closed"
====
